---- MODULE Spec2Model ----
(***************************************************************************)
(* Model of bot/platforms/discord.py: the DiscordPlatform adapter.         *)
(*                                                                         *)
(* The adapter is a set of synchronous functions over one immutable field  *)
(* (_verify_key).  A behaviour is: an adapter is constructed, one call     *)
(* with its arguments is pending (pc = "call"), the called method runs     *)
(* and leaves its return value (or the exception it raised) in result      *)
(* (pc = "done").                                                          *)
(*                                                                         *)
(* Python values are tagged records: StrV(s) with s a sequence of one-     *)
(* character strings, IntV(n), BoolV(b), None, BytesV(b) with b a sequence *)
(* of 0..255, ListV(l), DictV(m) with m a function from keys to values,    *)
(* ObjV(attrs, repr) and Raise(e) for an exception leaving a function.     *)
(***************************************************************************)
EXTENDS Integers, Sequences, FiniteSets, TLC

VARIABLES public_key, verify_key, call, pc, result

vars == <<public_key, verify_key, call, pc, result>>

----------------------------------------------------------------------------
(* Bounds *)

\* length in bytes of a public key (32 in libsodium, scaled)
KeyLen == 1
\* longest timestamp header value, in characters
MaxTs == 1
\* longest request body, in bytes
MaxBody == 1
\* longest options list of a command
MaxOptions == 2

----------------------------------------------------------------------------
(* Python values *)

None == [t |-> "None"]
StrV(s) == [t |-> "str", v |-> s]
IntV(n) == [t |-> "int", v |-> n]
BoolV(b) == [t |-> "bool", v |-> b]
BytesV(b) == [t |-> "bytes", v |-> b]
ListV(l) == [t |-> "list", v |-> l]
DictV(m) == [t |-> "dict", v |-> m]
ObjV(attrs, repr) == [t |-> "object", v |-> attrs, repr |-> repr]
Raise(e) == [t |-> "raise", exc |-> e]

\* the empty dict {} (a function with an empty domain)
EmptyDict == DictV([k \in {} |-> None])

IsRaise(x) == x.t = "raise"

\* Python truth value of an object
Truthy(x) ==
    CASE x.t = "None" -> FALSE
      [] x.t = "bool" -> x.v
      [] x.t = "int" -> x.v # 0
      [] x.t = "str" -> x.v # <<>>
      [] x.t = "bytes" -> x.v # <<>>
      [] x.t = "list" -> x.v # <<>>
      [] x.t = "dict" -> DOMAIN x.v # {}
      [] OTHER -> TRUE

\* a or b
PyOr(a, b) == IF Truthy(a) THEN a ELSE b

\* d.get(k, default); an object without a get method raises AttributeError
DictGet(d, k, default) ==
    IF d.t # "dict" THEN Raise("AttributeError")
    ELSE IF k \in DOMAIN d.v THEN d.v[k] ELSE default

\* decimal digits of a natural number
RECURSIVE Digits(_)
Digits(n) ==
    LET d == <<"0", "1", "2", "3", "4", "5", "6", "7", "8", "9">>
    IN IF n < 10 THEN <<d[n + 1]>> ELSE Digits(n \div 10) \o <<d[(n % 10) + 1]>>

\* str(x), as a sequence of characters
PyStr(x) ==
    CASE x.t = "str" -> x.v
      [] x.t = "int" -> IF x.v < 0 THEN <<"-">> \o Digits(0 - x.v) ELSE Digits(x.v)
      [] x.t = "bool" -> IF x.v THEN <<"T", "r", "u", "e">>
                         ELSE <<"F", "a", "l", "s", "e">>
      [] x.t = "None" -> <<"N", "o", "n", "e">>
      [] x.t = "object" -> x.repr
      [] OTHER -> <<"?">>

\* sep.join(parts)
RECURSIVE Join(_, _)
Join(sep, parts) ==
    IF parts = <<>> THEN <<>>
    ELSE IF Len(parts) = 1 THEN parts[1]
    ELSE parts[1] \o sep \o Join(sep, Tail(parts))

----------------------------------------------------------------------------
(* Hex and text codecs *)

HexDigits == <<"0", "1", "2", "3", "4", "5", "6", "7",
               "8", "9", "a", "b", "c", "d", "e", "f">>
UpperHexDigits == <<"0", "1", "2", "3", "4", "5", "6", "7",
                    "8", "9", "A", "B", "C", "D", "E", "F">>

IsHexChar(c) == \E i \in 1..16 : HexDigits[i] = c \/ UpperHexDigits[i] = c
HexVal(c) == (CHOOSE i \in 1..16 : HexDigits[i] = c \/ UpperHexDigits[i] = c) - 1
IsSpace(c) == c \in {" ", "\t", "\n", "\r"}

\* bytes.fromhex(s): pairs of hex digits of either case, ASCII whitespace
\* skipped between pairs; anything else is a ValueError
RECURSIVE FromHex(_)
FromHex(s) ==
    IF s = <<>> THEN BytesV(<<>>)
    ELSE IF IsSpace(s[1]) THEN FromHex(Tail(s))
    ELSE IF Len(s) < 2 \/ ~IsHexChar(s[1]) \/ ~IsHexChar(s[2]) THEN Raise("ValueError")
    ELSE LET rest == FromHex(Tail(Tail(s)))
         IN IF IsRaise(rest) THEN rest
            ELSE BytesV(<<16 * HexVal(s[1]) + HexVal(s[2])>> \o rest.v)

\* bytes.hex(): two lower-case digits for a byte
RECURSIVE ToHex(_)
ToHex(b) ==
    IF b = <<>> THEN <<>>
    ELSE <<HexDigits[(b[1] \div 16) + 1], HexDigits[(b[1] % 16) + 1]>> \o ToHex(Tail(b))

\* the same digits in upper case
RECURSIVE ToUpperHex(_)
ToUpperHex(b) ==
    IF b = <<>> THEN <<>>
    ELSE <<UpperHexDigits[(b[1] \div 16) + 1], UpperHexDigits[(b[1] % 16) + 1]>>
         \o ToUpperHex(Tail(b))

\* a lone surrogate code point, which UTF-8 cannot encode
Surrogate == "U+D800"

\* ord(c) of the ASCII characters a timestamp is made of
Ord(c) == CASE c = "0" -> 48 [] c = "1" -> 49 [] c = "2" -> 50 [] c = "3" -> 51
            [] c = "4" -> 52 [] c = "5" -> 53 [] c = "6" -> 54 [] c = "7" -> 55
            [] c = "8" -> 56 [] c = "9" -> 57 [] OTHER -> 63

\* str.encode(): UTF-8; UnicodeEncodeError on a surrogate
RECURSIVE StrEncode(_)
StrEncode(s) ==
    IF s = <<>> THEN BytesV(<<>>)
    ELSE IF s[1] = Surrogate THEN Raise("UnicodeEncodeError")
    ELSE LET rest == StrEncode(Tail(s))
         IN IF IsRaise(rest) THEN rest ELSE BytesV(<<Ord(s[1])>> \o rest.v)

----------------------------------------------------------------------------
(* Ed25519 as an ideal signature scheme: a signature is an injective      *)
(* encoding of (key, message) in crypto_sign_BYTES bytes, and verification *)
(* accepts that signature and no other byte string.                        *)

\* crypto_sign_BYTES (64 in libsodium, scaled to hold key and message)
SigLen == KeyLen + MaxTs + MaxBody + 1

\* the signature the holder of the private half of key makes for message
Sign(key, message) ==
    LET used == key \o message \o <<128>>
    IN used \o [i \in 1..(SigLen - Len(used)) |-> 0]

\* VerifyKey(b): the key must be crypto_sign_PUBLICKEYBYTES bytes long
VerifyKey(b) ==
    IF Len(b.v) # KeyLen THEN Raise("ValueError")
    ELSE [t |-> "VerifyKey", v |-> b.v]

\* VerifyKey.verify(message, signature)
VerifyKey_verify(key, message, signature) ==
    IF message.t # "bytes" \/ signature.t # "bytes" THEN Raise("TypeError")
    ELSE IF Len(signature.v) # SigLen THEN Raise("ValueError")
    ELSE IF signature.v = Sign(key.v, message.v) THEN message
    ELSE Raise("BadSignatureError")

----------------------------------------------------------------------------
(* bot.models *)

\* WebhookResponse.success(body)
WebhookResponse_success(body) == [t |-> "WebhookResponse", success |-> TRUE, body |-> body]

----------------------------------------------------------------------------
(* DiscordPlatform.__init__ and verify_request *)

\* __init__: the value of self._verify_key after construction
DiscordPlatform_init(pk) ==
    IF ~Truthy(pk) THEN None
    ELSE LET raw == FromHex(pk.v)
         IN IF IsRaise(raw) THEN None
            ELSE LET k == VerifyKey(raw)
                 IN IF IsRaise(k) THEN None ELSE k

\* the signature header as verify_request reads it
signature_header(headers) ==
    PyOr(DictGet(headers, "x-signature-ed25519", None),
         DictGet(headers, "X-Signature-Ed25519", None))

\* the timestamp header as verify_request reads it
timestamp_header(headers) ==
    PyOr(DictGet(headers, "x-signature-timestamp", None),
         DictGet(headers, "X-Signature-Timestamp", None))

\* message = timestamp.encode() + body
signed_message(timestamp, body) ==
    LET encoded == StrEncode(timestamp.v)
    IN IF IsRaise(encoded) THEN encoded ELSE BytesV(encoded.v \o body.v)

\* the try block of verify_request: the value it returns or the exception
\* that leaves it
try_verify(vk, signature, timestamp, body) ==
    LET message == signed_message(timestamp, body)
        sig == IF IsRaise(message) THEN message ELSE FromHex(signature.v)
        verified == IF IsRaise(sig) THEN sig ELSE VerifyKey_verify(vk, message, sig)
    IN IF IsRaise(verified) THEN verified ELSE BoolV(TRUE)

verify_request_headers_first(vk, headers, body) ==
    LET signature == signature_header(headers)
        timestamp == timestamp_header(headers)
    IN  IF ~Truthy(signature) \/ ~Truthy(timestamp) THEN BoolV(FALSE)
        ELSE IF ~Truthy(vk) THEN BoolV(TRUE)
        ELSE LET r == try_verify(vk, signature, timestamp, body)
             IN IF IsRaise(r) THEN BoolV(FALSE) ELSE r

verify_request_bad_signature_only(vk, headers, body) ==
    IF ~Truthy(vk) THEN BoolV(TRUE)
    ELSE
    LET signature == signature_header(headers)
        timestamp == timestamp_header(headers)
    IN  IF ~Truthy(signature) \/ ~Truthy(timestamp) THEN BoolV(FALSE)
        ELSE LET r == try_verify(vk, signature, timestamp, body)
             IN IF ~IsRaise(r) THEN r
                ELSE IF r.exc = "BadSignatureError" THEN BoolV(FALSE)
                ELSE r

\* verify_request(headers, body) of an adapter whose _verify_key is vk
verify_request(vk, headers, body) ==
    IF ~Truthy(vk) THEN BoolV(TRUE)
    ELSE
    LET signature == signature_header(headers)
        timestamp == timestamp_header(headers)
    IN  IF ~Truthy(signature) \/ ~Truthy(timestamp) THEN BoolV(FALSE)
        ELSE LET r == try_verify(vk, signature, timestamp, body)
             IN IF ~IsRaise(r) THEN r
                ELSE IF r.exc = "BadSignatureError" THEN BoolV(FALSE)
                ELSE BoolV(FALSE)

----------------------------------------------------------------------------
(* DiscordPlatform.parse_message, format_response, handle_challenge *)

\* x == n for an int literal n (a bool compares as 0 or 1)
PyEqInt(x, n) ==
    \/ x.t = "int" /\ x.v = n
    \/ x.t = "bool" /\ (IF x.v THEN 1 ELSE 0) = n

\* the first exception among the values xs, or None
RECURSIVE FirstRaise(_)
FirstRaise(xs) ==
    IF xs = <<>> THEN None
    ELSE IF IsRaise(xs[1]) THEN xs[1] ELSE FirstRaise(Tail(xs))

\* args: str(option.get("value", "")) for each option, in order
option_args(options) ==
    [i \in 1..Len(options.v) |->
        LET value == DictGet(options.v[i], "value", StrV(<<>>))
        IN IF IsRaise(value) THEN value ELSE StrV(PyStr(value))]

command_content_unspaced(command_name, options) ==
    IF ~Truthy(options) THEN StrV(<<"/">> \o PyStr(command_name))
    ELSE LET args == option_args(options)
             bad == FirstRaise(args)
         IN IF IsRaise(bad) THEN bad
            ELSE StrV(<<"/">> \o PyStr(command_name)
                      \o Join(<<" ">>, [i \in 1..Len(args) |-> args[i].v]))

\* content: "/" and the command name, then a space and the joined args
command_content(command_name, options) ==
    IF ~Truthy(options) THEN StrV(<<"/">> \o PyStr(command_name))
    ELSE LET args == option_args(options)
             bad == FirstRaise(args)
         IN IF IsRaise(bad) THEN bad
            ELSE IF args = <<>> THEN StrV(<<"/">> \o PyStr(command_name))
            ELSE StrV(<<"/">> \o PyStr(command_name) \o <<" ">>
                      \o Join(<<" ">>, [i \in 1..Len(args) |-> args[i].v]))

actor_top_level_first(data) ==
    LET member == DictGet(data, "member", EmptyDict)
        fallback == DictGet(data, "user", EmptyDict)
    IN IF IsRaise(member) THEN member
       ELSE IF IsRaise(fallback) THEN fallback
       ELSE IF "user" \in DOMAIN data.v THEN fallback
       ELSE DictGet(member, "user", EmptyDict)

\* user = data.get("member", {}).get("user", data.get("user", {}))
actor(data) ==
    LET member == DictGet(data, "member", EmptyDict)
        fallback == DictGet(data, "user", EmptyDict)
    IN IF IsRaise(member) THEN member
       ELSE IF IsRaise(fallback) THEN fallback
       ELSE DictGet(member, "user", fallback)

\* chat_id=channel_id or guild_id
chat_id_of(channel_id, guild_id) == PyOr(channel_id, guild_id)

chat_type_by_channel(channel_id, guild_id) ==
    IF Truthy(channel_id) /\ Truthy(guild_id) THEN "GROUP" ELSE "PRIVATE"

\* chat_type=ChatType.GROUP if guild_id else ChatType.PRIVATE
chat_type_of(channel_id, guild_id) == IF Truthy(guild_id) THEN "GROUP" ELSE "PRIVATE"

\* the part of parse_message that follows the type checks
build_message(data) ==
    LET command_data == DictGet(data, "data", EmptyDict)
        command_name == IF IsRaise(command_data) THEN command_data
                        ELSE DictGet(command_data, "name", StrV(<<>>))
        options == IF IsRaise(command_name) THEN command_name
                   ELSE DictGet(command_data, "options", ListV(<<>>))
        content == IF IsRaise(options) THEN options
                   ELSE command_content(command_name, options)
        user == IF IsRaise(content) THEN content ELSE actor(data)
        user_id == IF IsRaise(user) THEN user ELSE DictGet(user, "id", StrV(<<>>))
        user_name == IF IsRaise(user_id) THEN user_id
                     ELSE DictGet(user, "username",
                                  StrV(<<"u", "n", "k", "n", "o", "w", "n">>))
        channel_id == DictGet(data, "channel_id", StrV(<<>>))
        guild_id == DictGet(data, "guild_id", StrV(<<>>))
    IN IF IsRaise(user_name) THEN user_name
       ELSE [t |-> "BotMessage",
             platform |-> "discord",
             message_id |-> DictGet(data, "id", StrV(<<>>)),
             user_id |-> user_id,
             user_name |-> user_name,
             chat_id |-> chat_id_of(channel_id, guild_id),
             chat_type |-> chat_type_of(channel_id, guild_id),
             content |-> content,
             raw_content |-> content,
             mentioned |-> FALSE,
             mentions |-> <<>>,
             raw_data |-> data]

parse_message_not_ping(data) ==
    LET interaction_type == DictGet(data, "type", None)
    IN IF IsRaise(interaction_type) THEN interaction_type
       ELSE IF PyEqInt(interaction_type, 1) THEN None
       ELSE build_message(data)

\* parse_message(data)
parse_message(data) ==
    LET interaction_type == DictGet(data, "type", None)
    IN IF IsRaise(interaction_type) THEN interaction_type
       ELSE IF PyEqInt(interaction_type, 1) THEN None
       ELSE IF ~PyEqInt(interaction_type, 2) THEN None
       ELSE build_message(data)

\* hasattr(x, name)
HasAttr(x, name) == x.t = "object" /\ name \in DOMAIN x.v

format_response_ephemeral(response, message) ==
    WebhookResponse_success(DictV(
        [type |-> IntV(4),
         data |-> DictV([content |-> IF HasAttr(response, "text") THEN response.v["text"]
                                     ELSE StrV(PyStr(response)),
                         flags |-> IntV(64)])]))

\* format_response(response, message)
format_response(response, message) ==
    WebhookResponse_success(DictV(
        [type |-> IntV(4),
         data |-> DictV([content |-> IF HasAttr(response, "text") THEN response.v["text"]
                                     ELSE StrV(PyStr(response)),
                         flags |-> IntV(0)])]))

handle_challenge_any_type(data) ==
    LET interaction_type == DictGet(data, "type", None)
    IN IF IsRaise(interaction_type) THEN interaction_type
       ELSE IF interaction_type.t = "int"
            THEN WebhookResponse_success(DictV([type |-> IntV(1)]))
       ELSE None

\* handle_challenge(data)
handle_challenge(data) ==
    LET interaction_type == DictGet(data, "type", None)
    IN IF IsRaise(interaction_type) THEN interaction_type
       ELSE IF PyEqInt(interaction_type, 1)
            THEN WebhookResponse_success(DictV([type |-> IntV(1)]))
       ELSE None

----------------------------------------------------------------------------
(* Inputs *)

\* marks a key that a mapping does not have
Absent == [t |-> "absent"]

\* the one-entry mapping k -> v, or no entry when v is Absent
Opt(k, v) == IF v = Absent THEN [x \in {} |-> None] ELSE (k :> v)

\* all sequences over S of length 0..n
SeqsUpTo(S, n) == UNION {[1..k -> S] : k \in 0..n}

\* key material: two distinct public keys of KeyLen bytes
KeyA == [i \in 1..KeyLen |-> 10]
KeyB == [i \in 1..KeyLen |-> 11]

\* the public_key argument of the constructor: none, empty, not hex,
\* hex of the wrong length, a usable key
PublicKeys ==
    {None, StrV(<<>>), StrV(<<"z", "z">>), StrV(ToHex(KeyA \o <<10>>)), StrV(ToHex(KeyA))}

\* timestamp header values
Timestamps == {StrV(s) : s \in SeqsUpTo({"1", "2"}, MaxTs)} \cup {StrV(<<Surrogate>>)}

\* request bodies
Bodies == {BytesV(b) : b \in SeqsUpTo({49, 50}, MaxBody)}

\* messages somebody may have signed
SignedMessages == SeqsUpTo({49, 50}, MaxTs + MaxBody)

\* signature header values: signatures by either key in either letter case,
\* with whitespace between bytes, cut short, of odd length, not hex, empty
Signatures ==
    {StrV(ToHex(Sign(KeyA, m))) : m \in SignedMessages}
    \cup {StrV(ToUpperHex(Sign(KeyA, m))) : m \in SignedMessages}
    \cup {StrV(ToHex(Sign(KeyB, m))) : m \in SignedMessages}
    \cup {StrV(ToHex(KeyA) \o <<" ">> \o ToHex(<<128>> \o [i \in 1..(SigLen - KeyLen - 1) |-> 0])),
          StrV(ToHex(KeyA \o <<128>>)),
          StrV(ToHex(KeyA) \o <<"8">>),
          StrV(<<"z", "z">>),
          StrV(<<>>)}

SignatureNames == <<"x-signature-ed25519", "X-Signature-Ed25519", "X-SIGNATURE-ED25519">>
TimestampNames == <<"x-signature-timestamp", "X-Signature-Timestamp", "X-SIGNATURE-TIMESTAMP">>

\* the ways a header of value v is carried: not at all, under one spelling
\* of its name, or under the canonical name next to an empty lower-case one
Carried(names, v) ==
    {[x \in {} |-> None]}
    \cup {names[i] :> v : i \in 1..3}
    \cup {(names[1] :> StrV(<<>>)) @@ (names[2] :> v)}

HeaderMaps ==
    {DictV(sh @@ th) : sh \in UNION {Carried(SignatureNames, v) : v \in Signatures},
                       th \in UNION {Carried(TimestampNames, v) : v \in Timestamps}}

VerifyCalls == {[op |-> "verify_request", headers |-> h, body |-> b] : h \in HeaderMaps, b \in Bodies}

S_ping == StrV(<<"p", "i", "n", "g">>)
S_AAPL == StrV(<<"A", "A", "P", "L">>)

\* an option: without a value, with a string value, with an integer value
Options == {EmptyDict, DictV([value |-> S_AAPL]), DictV([value |-> IntV(5)])}

OptionLists == {ListV(l) : l \in SeqsUpTo(Options, MaxOptions)}

\* the data field: missing, null, empty, a command name with or without options
CommandData ==
    {Absent, None, EmptyDict, DictV([name |-> S_ping]), DictV([options |-> ListV(<<DictV([value |-> S_AAPL])>>)])}
    \cup {DictV([name |-> S_ping, options |-> o]) : o \in OptionLists}

User1 == DictV([id |-> StrV(<<"u", "1">>), username |-> StrV(<<"a", "n", "n">>)])
User2 == DictV([id |-> StrV(<<"u", "2">>), username |-> StrV(<<"b", "o", "b">>)])

Members == {Absent, None, EmptyDict, DictV([user |-> User1]),
            DictV([user |-> DictV([id |-> StrV(<<"u", "1">>)])])}
Users == {Absent, User2, EmptyDict}

InteractionTypes == {Absent, IntV(1), IntV(2), IntV(3), StrV(<<"2">>)}
ChannelIds == {Absent, StrV(<<>>), StrV(<<"c", "1">>)}
GuildIds == {Absent, StrV(<<>>), StrV(<<"g", "1">>)}
InteractionIds == {Absent, StrV(<<"i", "1">>)}

Payload(ty, d, m, u, c, g, i) ==
    DictV(Opt("type", ty) @@ Opt("data", d) @@ Opt("member", m) @@ Opt("user", u)
          @@ Opt("channel_id", c) @@ Opt("guild_id", g) @@ Opt("id", i))

Payloads ==
    {Payload(ty, d, m, u, c, g, i) :
        ty \in InteractionTypes, d \in CommandData, m \in Members, u \in Users,
        c \in ChannelIds, g \in GuildIds, i \in InteractionIds}

\* responses: objects with a text attribute, plain strings, other objects
Responses ==
    {ObjV([text |-> x], <<"<", "R", ">">>) :
        x \in {StrV(<<"h", "e", "l", "l", "o">>), StrV(<<>>), StrV(<<"6", "4">>)}}
    \cup {StrV(<<"h", "e", "l", "l", "o">>), StrV(<<>>), IntV(64), IntV(0), BoolV(TRUE), None,
          ObjV([status |-> IntV(0)], <<"<", "R", ">">>)}

\* originating messages: what parse_message makes of some command payloads
Messages ==
    {parse_message(Payload(IntV(2), d, Absent, u, c, g, Absent)) :
        d \in {DictV([name |-> S_ping])}, u \in {Absent, User2}, c \in ChannelIds, g \in GuildIds}

----------------------------------------------------------------------------
(* State machine *)

InitVerify ==
    /\ public_key \in PublicKeys
    /\ verify_key = DiscordPlatform_init(public_key)
    /\ call \in VerifyCalls
    /\ pc = "call"
    /\ result = None

InitParse ==
    /\ public_key = None
    /\ verify_key = DiscordPlatform_init(public_key)
    /\ call \in {[op |-> "parse_message", data |-> d] : d \in Payloads}
    /\ pc = "call"
    /\ result = None

InitFormat ==
    /\ public_key = None
    /\ verify_key = DiscordPlatform_init(public_key)
    /\ call \in {[op |-> "format_response", response |-> r, message |-> m] :
                    r \in Responses, m \in Messages}
    /\ pc = "call"
    /\ result = None

InitChallenge ==
    /\ public_key = None
    /\ verify_key = DiscordPlatform_init(public_key)
    /\ call \in {[op |-> "handle_challenge", data |-> d] : d \in Payloads}
    /\ pc = "call"
    /\ result = None

Init == InitVerify \/ InitParse \/ InitFormat \/ InitChallenge

VerifyRequest ==
    /\ pc = "call" /\ call.op = "verify_request"
    /\ result' = verify_request(verify_key, call.headers, call.body)
    /\ pc' = "done"
    /\ UNCHANGED <<public_key, verify_key, call>>

ParseMessage ==
    /\ pc = "call" /\ call.op = "parse_message"
    /\ result' = parse_message(call.data)
    /\ pc' = "done"
    /\ UNCHANGED <<public_key, verify_key, call>>

FormatResponse ==
    /\ pc = "call" /\ call.op = "format_response"
    /\ result' = format_response(call.response, call.message)
    /\ pc' = "done"
    /\ UNCHANGED <<public_key, verify_key, call>>

HandleChallenge ==
    /\ pc = "call" /\ call.op = "handle_challenge"
    /\ result' = handle_challenge(call.data)
    /\ pc' = "done"
    /\ UNCHANGED <<public_key, verify_key, call>>

Next == VerifyRequest \/ ParseMessage \/ FormatResponse \/ HandleChallenge

Spec == Init /\ [][Next]_vars

SpecVerify == InitVerify /\ [][VerifyRequest]_vars
SpecParse == InitParse /\ [][ParseMessage]_vars
SpecFormat == InitFormat /\ [][FormatResponse]_vars
SpecChallenge == InitChallenge /\ [][HandleChallenge]_vars

----------------------------------------------------------------------------
(* Properties *)

\* the called method has returned (or raised)
Done(op) == pc = "done" /\ call.op = op

\* the configured key string is the hex of a key of the right length
UsableKey(pk) ==
    /\ pk.t = "str" /\ pk.v # <<>>
    /\ ~IsRaise(FromHex(pk.v))
    /\ Len(FromHex(pk.v).v) = KeyLen

\* the spellings of a header name under which the request carries a value
Spellings(h, names) == {i \in 1..3 : names[i] \in DOMAIN h.v}

\* the non-empty values the request carries for a header, whatever the
\* letter case of its name
HeaderValues(h, names) == {h.v[names[i]] : i \in Spellings(h, names)} \ {StrV(<<>>)}

\* sig is the hex of the signature, under the key string pk, of the bytes of
\* ts followed by body
ValidFor(pk, sig, ts, body) ==
    /\ ~IsRaise(StrEncode(ts.v))
    /\ ~IsRaise(FromHex(sig.v))
    /\ FromHex(sig.v).v = Sign(FromHex(pk.v).v, StrEncode(ts.v).v \o body.v)

\* the request carries each of the two headers once, with a signature valid
\* for its timestamp and body
CorrectlySigned ==
    /\ Cardinality(Spellings(call.headers, SignatureNames)) = 1
    /\ Cardinality(Spellings(call.headers, TimestampNames)) = 1
    /\ \E sig \in HeaderValues(call.headers, SignatureNames),
          ts \in HeaderValues(call.headers, TimestampNames) :
            ValidFor(public_key, sig, ts, call.body)

\* the sequences that differ from b in exactly one position
OneByteChanges(b, alphabet) ==
    {[b EXCEPT ![i] = x] : i \in 1..Len(b), x \in alphabet} \ {b}

\* the request that carries the given values under the lower-case header names
Request(sig, ts) ==
    DictV((SignatureNames[1] :> sig) @@ (TimestampNames[1] :> ts))

\* C1: for an adapter with a valid key and a request that carries each header
\* at most once with a non-empty timestamp, verify_request returns true
\* exactly when the signature header hex-decodes to the signature, under that
\* key, of the timestamp bytes followed by the body bytes; and an accepted
\* request is rejected after a change of one byte of its body, its timestamp
\* or its signature.
C1_TrueExactlyWhenValidSignature ==
    (/\ Done("verify_request") /\ UsableKey(public_key)
     /\ Cardinality(Spellings(call.headers, SignatureNames)) <= 1
     /\ Cardinality(Spellings(call.headers, TimestampNames)) <= 1
     /\ StrV(<<>>) \notin {call.headers.v[TimestampNames[i]] :
                              i \in Spellings(call.headers, TimestampNames)})
    => /\ (result = BoolV(TRUE)) <=> CorrectlySigned
       /\ result = BoolV(TRUE) =>
            \A sig \in HeaderValues(call.headers, SignatureNames),
               ts \in HeaderValues(call.headers, TimestampNames) :
                /\ \A b \in OneByteChanges(call.body.v, {49, 50}) :
                     verify_request(verify_key, Request(sig, ts), BytesV(b)) = BoolV(FALSE)
                /\ \A t \in OneByteChanges(ts.v, {"1", "2"}) :
                     verify_request(verify_key, Request(sig, StrV(t)), call.body) = BoolV(FALSE)
                /\ \A g \in OneByteChanges(FromHex(sig.v).v, {0, 10, 11, 49, 50, 128}) :
                     verify_request(verify_key, Request(StrV(ToHex(g)), ts), call.body)
                        = BoolV(FALSE)

\* C2: an adapter whose key string is missing or failed to initialize
\* answers true to every request, whatever its headers and body.
C2_DegradedAlwaysTrue ==
    (Done("verify_request") /\ ~UsableKey(public_key)) => result = BoolV(TRUE)

\* a key string that failed to initialize, a request without headers, accepted
C2_Witness ==
    /\ Done("verify_request")
    /\ public_key = StrV(<<"z", "z">>)
    /\ DOMAIN call.headers.v = {}
    /\ result = BoolV(TRUE)

\* the ways the verification of a request fails
SignatureMissing == HeaderValues(call.headers, SignatureNames) = {}
TimestampMissing == HeaderValues(call.headers, TimestampNames) = {}
SignatureNotHex == \A sig \in HeaderValues(call.headers, SignatureNames) : IsRaise(FromHex(sig.v))
NoValidSignature ==
    \A sig \in HeaderValues(call.headers, SignatureNames),
       ts \in HeaderValues(call.headers, TimestampNames) :
        ~ValidFor(public_key, sig, ts, call.body)

\* C3: an adapter with a valid key never raises from verify_request, and
\* returns false when the signature or the timestamp header is absent or
\* empty, the signature is not hex, or decoding or verification fails.
C3_FailuresAreFalse ==
    (Done("verify_request") /\ UsableKey(public_key))
    => /\ result \in {BoolV(TRUE), BoolV(FALSE)}
       /\ (SignatureMissing \/ TimestampMissing \/ SignatureNotHex \/ NoValidSignature)
            => result = BoolV(FALSE)

\* a signature header that is not hex, next to a timestamp: false, no exception
C3_Witness ==
    /\ Done("verify_request") /\ UsableKey(public_key)
    /\ HeaderValues(call.headers, SignatureNames) = {StrV(<<"z", "z">>)}
    /\ Spellings(call.headers, SignatureNames) = {1}
    /\ Spellings(call.headers, TimestampNames) = {1}
    /\ ~TimestampMissing
    /\ result = BoolV(FALSE)

\* C4: for an adapter with a valid key, a correctly signed request is
\* accepted whatever the letter case of the two header names.
C4_HeaderNamesCaseInsensitive ==
    (Done("verify_request") /\ UsableKey(public_key) /\ CorrectlySigned)
    => result = BoolV(TRUE)

\* the fields of the parsed payload (Absent when missing)
Field(k) == IF k \in DOMAIN call.data.v THEN call.data.v[k] ELSE Absent
IsCommand == Field("type") = IntV(2)
IsMessage(x) == x.t = "BotMessage"

\* C5: parse_message returns None for every payload whose type is not 2
\* (type 1, any other value, no type), and a message only for type 2.
C5_NullUnlessCommand ==
    Done("parse_message")
    => /\ ~IsCommand => result = None
       /\ IsMessage(result) => IsCommand

\* payloads of type 1 and of no type, with a command in them, give None
C5_Witness ==
    /\ Done("parse_message")
    /\ Field("type") \in {IntV(1), IntV(3), Absent}
    /\ Field("data") = DictV([name |-> S_ping])
    /\ result = None

\* the command name and the option values of the parsed payload
CommandName ==
    IF Field("data").t = "dict" /\ "name" \in DOMAIN Field("data").v
    THEN PyStr(Field("data").v["name"]) ELSE <<>>
CommandOptions ==
    IF Field("data").t = "dict" /\ "options" \in DOMAIN Field("data").v
    THEN Field("data").v["options"].v ELSE <<>>
OptionText(o) == IF "value" \in DOMAIN o.v THEN PyStr(o.v["value"]) ELSE <<>>

\* every text of ts, each one after a single space
RECURSIVE SpacedTexts(_)
SpacedTexts(ts) ==
    IF ts = <<>> THEN <<>> ELSE <<" ">> \o ts[1] \o SpacedTexts(Tail(ts))

\* C6: the content of the message made from a type-2 payload is "/" and the
\* command name, followed, when there are options, by one space and the
\* string forms of the option values separated by single spaces in the order
\* given, and by nothing when there are none; raw_content equals content.
C6_ContentIsSlashCommand ==
    (Done("parse_message") /\ IsCommand /\ IsMessage(result))
    => LET c == result.content.v
           n == CommandName
       IN /\ Len(c) >= 1 + Len(n)
          /\ c[1] = "/"
          /\ SubSeq(c, 2, 1 + Len(n)) = n
          /\ SubSeq(c, 2 + Len(n), Len(c))
                = SpacedTexts([i \in 1..Len(CommandOptions) |-> OptionText(CommandOptions[i])])
          /\ result.raw_content = result.content

\* a command with two options: "/ping AAPL 5"
C6_Witness ==
    /\ Done("parse_message") /\ IsCommand
    /\ Len(CommandOptions) = 2
    /\ IsMessage(result)
    /\ result.content = StrV(<<"/", "p", "i", "n", "g", " ", "A", "A", "P", "L", " ", "5">>)

\* the payload carries an id in field k (an empty id is no id)
Carries(k) == Field(k) # Absent /\ Field(k).v # <<>>

\* C7: chat_id is the channel id if the payload carries one, else the guild
\* id if it carries one, else the empty string, so it is empty only when the
\* payload carries neither; chat_type is GROUP exactly when the payload
\* carries a guild id, whether or not it carries a channel id.
C7_ChatScope ==
    (Done("parse_message") /\ IsCommand /\ IsMessage(result))
    => /\ result.chat_id = (IF Carries("channel_id") THEN Field("channel_id")
                            ELSE IF Carries("guild_id") THEN Field("guild_id")
                            ELSE StrV(<<>>))
       /\ result.chat_id = StrV(<<>>) => (~Carries("channel_id") /\ ~Carries("guild_id"))
       /\ (result.chat_type = "GROUP") <=> Carries("guild_id")
       /\ result.chat_type \in {"GROUP", "PRIVATE"}

\* a guild id and no channel id: chat_id is the guild id, chat_type is GROUP
C7_Witness ==
    /\ Done("parse_message") /\ IsCommand /\ IsMessage(result)
    /\ ~Carries("channel_id") /\ Carries("guild_id")
    /\ result.chat_id = StrV(<<"g", "1">>)
    /\ result.chat_type = "GROUP"

\* no field of the payload is null: each is missing or has the shape of the
\* interaction schema
NoNullField == Field("data") # None /\ Field("member") # None

\* the actor record: member.user when there is one, else the top-level user
ActorRecord ==
    IF Field("member") # Absent /\ "user" \in DOMAIN Field("member").v
    THEN Field("member").v["user"]
    ELSE IF Field("user") # Absent THEN Field("user")
    ELSE EmptyDict

\* C8: a type-2 payload with any of its optional fields missing gives a
\* message, never an exception; the actor is member.user when that record
\* exists and the top-level user otherwise; user_id defaults to "" and
\* user_name to "unknown".
C8_MissingFieldsTolerated ==
    (Done("parse_message") /\ IsCommand /\ NoNullField)
    => /\ IsMessage(result)
       /\ result.user_id = (IF "id" \in DOMAIN ActorRecord.v THEN ActorRecord.v["id"]
                            ELSE StrV(<<>>))
       /\ result.user_name = (IF "username" \in DOMAIN ActorRecord.v
                              THEN ActorRecord.v["username"]
                              ELSE StrV(<<"u", "n", "k", "n", "o", "w", "n">>))

\* a member record with a user next to a top-level user, and nothing else but
\* the type: the actor is member.user
C8_Witness ==
    /\ Done("parse_message") /\ IsCommand
    /\ DOMAIN call.data.v = {"type", "member", "user"}
    /\ Field("member") = DictV([user |-> DictV([id |-> StrV(<<"u", "1">>)])])
    /\ Field("user") = User2
    /\ IsMessage(result)
    /\ result.user_id = StrV(<<"u", "1">>)
    /\ result.user_name = StrV(<<"u", "n", "k", "n", "o", "w", "n">>)

\* C9: format_response returns a Success envelope for every response and
\* message; its payload is {type: 4, data: {content: C, flags: 0}} with C the
\* text attribute of the response when it has one and its string form
\* otherwise; flags is never 64.
C9_PublicReplyEnvelope ==
    Done("format_response")
    => /\ result.t = "WebhookResponse" /\ result.success
       /\ DOMAIN result.body.v = {"type", "data"}
       /\ result.body.v["type"] = IntV(4)
       /\ DOMAIN result.body.v["data"].v = {"content", "flags"}
       /\ result.body.v["data"].v["flags"] = IntV(0)
       /\ result.body.v["data"].v["flags"] # IntV(64)
       /\ result.body.v["data"].v["content"]
            = (IF call.response.t = "object" /\ "text" \in DOMAIN call.response.v
               THEN call.response.v["text"]
               ELSE StrV(PyStr(call.response)))

\* a response without a text attribute whose string form is "64"
C9_Witness ==
    /\ Done("format_response")
    /\ call.response = IntV(64)
    /\ result.body.v["data"].v["content"] = StrV(<<"6", "4">>)
    /\ result.body.v["data"].v["flags"] = IntV(0)

\* C10: handle_challenge returns a Success envelope of payload {type: 1}
\* when the type is 1 and None for every other payload, whatever the other
\* fields; it never returns a message.
C10_PongOnlyForPing ==
    Done("handle_challenge")
    => /\ Field("type") = IntV(1)
            => result = [t |-> "WebhookResponse", success |-> TRUE,
                         body |-> DictV([type |-> IntV(1)])]
       /\ Field("type") # IntV(1) => result = None
       /\ ~IsMessage(result)

\* a command payload (type 2, with data and a user) gives None
C10_Witness ==
    /\ Done("handle_challenge")
    /\ Field("type") = IntV(2)
    /\ Field("data") = DictV([name |-> S_ping])
    /\ Field("user") = User2
    /\ result = None

====
